---- MODULE Spec2Model ----
(***************************************************************************)
(* The file-backed record store of the Eisenhower board                    *)
(* (app/repository.py), the payload models that feed it (app/schemas.py)   *)
(* and the request handlers that drive it (app/main.py).                   *)
(***************************************************************************)
EXTENDS Integers, Sequences, FiniteSets, TLC

\* ------------------------------------------------------------------------
\* Bounds of the model
\* ------------------------------------------------------------------------
\* create_task is enabled while the task id counter is at most MaxTaskId
MaxTaskId == 2
\* create_staff is enabled while the staff id counter is at most MaxStaffId
MaxStaffId == 1
\* threads that call the store concurrently, one call each
NumThreads == 2

\* ------------------------------------------------------------------------
\* Python values: None, int, str, datetime.date (tagged, so that values of
\* different types can be compared)
\* ------------------------------------------------------------------------
None == [t |-> "none"]
PyInt(n) == [t |-> "int", v |-> n]
PyStr(s) == [t |-> "str", s |-> s]
PyDate(iso) == [t |-> "date", d |-> iso]

IsInt(x) == x.t = "int"
IsStr(x) == x.t = "str"
IsDate(x) == x.t = "date"

\* str(d) of a datetime.date: its ISO form, as a str
PyStrOf(x) == IF IsDate(x) THEN PyStr(x.d) ELSE x

\* ------------------------------------------------------------------------
\* Python dicts: functions from key strings to values
\* ------------------------------------------------------------------------
EmptyDict == [k \in {} |-> None]

\* d.get(k)
DictGet(d, k) == IF k \in DOMAIN d THEN d[k] ELSE None

\* d.update(u)
DictUpdate(d, u) ==
    [k \in (DOMAIN d) \cup (DOMAIN u) |-> IF k \in DOMAIN u THEN u[k] ELSE d[k]]

\* d[k] = v
DictSet(d, k, v) == DictUpdate(d, k :> v)

\* d.copy()
DictCopy(d) == [k \in DOMAIN d |-> d[k]]

\* ------------------------------------------------------------------------
\* JSON text of a collection: json.dumps / json.loads
\* ------------------------------------------------------------------------
\* the file does not exist
Absent == [j |-> "absent"]

JsonNull == [j |-> "null"]
JsonNumber(n) == [j |-> "number", n |-> n]
JsonString(s) == [j |-> "string", c |-> s]

\* json.dumps has an encoding for None, int and str; a date raises TypeError
JsonSerializable(records) ==
    \A i \in DOMAIN records : \A k \in DOMAIN records[i] : ~IsDate(records[i][k])

ToJson(x) ==
    IF IsInt(x) THEN JsonNumber(x.v)
    ELSE IF IsStr(x) THEN JsonString(x.s)
    ELSE JsonNull

FromJson(v) ==
    IF v.j = "number" THEN PyInt(v.n)
    ELSE IF v.j = "string" THEN PyStr(v.c)
    ELSE None

\* json.dumps(records, ensure_ascii=False, indent=2): an array of objects
json_dumps(records) ==
    [j |-> "array",
     items |-> [i \in DOMAIN records |->
                  [k \in DOMAIN records[i] |-> ToJson(records[i][k])]]]

\* json.loads(text)
json_loads(text) ==
    [i \in DOMAIN text.items |->
       [k \in DOMAIN text.items[i] |-> FromJson(text.items[i][k])]]

\* ------------------------------------------------------------------------
\* State
\* ------------------------------------------------------------------------
VARIABLES
    tasks,            \* DataRepository._tasks
    staff,            \* DataRepository._staff
    next_task_id,     \* DataRepository._next_task_id
    next_staff_id,    \* DataRepository._next_staff_id
    tasks_file,       \* content of data/tasks.json
    staff_file,       \* content of data/staff.json
    avatars,          \* names of the files in static/avatars
    issued_task_ids,  \* history: task ids assigned since the process started
    issued_staff_ids, \* history: staff ids assigned since the process started
    last,             \* the last call: operation, arguments, outcome, result
    lock,             \* DataRepository._lock: 0 when free, else the thread holding it
    thr,              \* per thread: its call and how far the call has got
    serial            \* history: the store had the calls run one at a time,
                      \* in the order in which they took the lock

store == <<tasks, staff, next_task_id, next_staff_id, tasks_file, staff_file>>
vars == <<tasks, staff, next_task_id, next_staff_id, tasks_file, staff_file,
          avatars, issued_task_ids, issued_staff_ids, last, lock, thr, serial>>

\* ------------------------------------------------------------------------
\* Payload models (app/schemas.py).  A model instance is the dict of the
\* fields its constructor was given; the class supplies the defaults.
\* ------------------------------------------------------------------------
\* StatusLiteral, in the program's order (not-started, in-progress, done)
StatusLiteral == {PyStr("not-started"), PyStr("in-progress"), PyStr("done")}
\* PriorityLiteral (high, medium, low)
PriorityLiteral == {PyStr("high"), PyStr("medium"), PyStr("low")}

TaskFields == {"title", "description", "owner_id", "created_by", "due_date",
               "status", "department", "priority", "quadrant"}
StaffFields == {"name", "department", "photo",
                "photo_q1", "photo_q2", "photo_q3", "photo_q4"}
PhotoKeys == {"photo", "photo_q1", "photo_q2", "photo_q3", "photo_q4"}

\* Optional[str]
OptionalStr(x) == x = None \/ IsStr(x)

\* Field(..., max_length=n)
MaxLength(x, n) == IsStr(x) => Len(x.s) <= n

\* Field(..., ge=1, le=4)
QuadrantInRange(x) == IsInt(x) /\ x.v >= 1 /\ x.v <= 4

\* defaults of TaskBase
TaskBaseDefaults ==
    [description |-> None, created_by |-> None, due_date |-> None,
     status |-> PyStr("not-started"), department |-> None,
     priority |-> PyStr("medium"), quadrant |-> PyInt(1)]

\* TaskCreate(**body) validates
TaskCreate(body) ==
    /\ DOMAIN body \subseteq TaskFields
    /\ {"title", "owner_id"} \subseteq DOMAIN body
    /\ IsStr(body["title"]) /\ MaxLength(body["title"], 80)
    /\ IsInt(body["owner_id"])
    /\ "description" \in DOMAIN body => MaxLength(body["description"], 500)
    /\ \A k \in DOMAIN body \cap {"description", "created_by", "department"} :
          OptionalStr(body[k])
    /\ "due_date" \in DOMAIN body => (body["due_date"] = None \/ IsDate(body["due_date"]))
    /\ "status" \in DOMAIN body => body["status"] \in StatusLiteral
    /\ "priority" \in DOMAIN body => body["priority"] \in PriorityLiteral
    /\ "quadrant" \in DOMAIN body => QuadrantInRange(body["quadrant"])

\* TaskUpdate(**body) validates: every field is Optional
TaskUpdate(body) ==
    /\ DOMAIN body \subseteq TaskFields
    /\ \A k \in DOMAIN body \cap {"title", "description", "created_by", "department"} :
          OptionalStr(body[k])
    /\ "title" \in DOMAIN body => MaxLength(body["title"], 80)
    /\ "description" \in DOMAIN body => MaxLength(body["description"], 500)
    /\ "owner_id" \in DOMAIN body => (body["owner_id"] = None \/ IsInt(body["owner_id"]))
    /\ "due_date" \in DOMAIN body => (body["due_date"] = None \/ IsDate(body["due_date"]))
    /\ "status" \in DOMAIN body => (body["status"] = None \/ body["status"] \in StatusLiteral)
    /\ "priority" \in DOMAIN body => (body["priority"] = None \/ body["priority"] \in PriorityLiteral)
    /\ "quadrant" \in DOMAIN body => (body["quadrant"] = None \/ QuadrantInRange(body["quadrant"]))

\* TaskQuadrantUpdate without ge=1, le=4
TaskQuadrantUpdate_unbounded(q) == IsInt(PyInt(q))

\* TaskQuadrantUpdate(quadrant=q) validates
TaskQuadrantUpdate(q) == QuadrantInRange(PyInt(q))

\* StaffCreate(**body) validates
StaffCreate(body) ==
    /\ DOMAIN body \subseteq StaffFields
    /\ "name" \in DOMAIN body
    /\ IsStr(body["name"]) /\ MaxLength(body["name"], 50)
    /\ \A k \in DOMAIN body \ {"name"} : OptionalStr(body[k])
    /\ "department" \in DOMAIN body => MaxLength(body["department"], 50)

\* StaffUpdate(**body) validates
StaffUpdate(body) ==
    /\ DOMAIN body \subseteq StaffFields
    /\ \A k \in DOMAIN body : OptionalStr(body[k])
    /\ \A k \in DOMAIN body \cap {"name", "department"} : MaxLength(body[k], 50)

\* payload.model_dump(): every field, unset ones at their default
model_dump(defaults, payload) == DictUpdate(defaults, payload)

\* payload.model_dump(exclude_unset=True): only the fields that were given
model_dump_exclude_unset(payload) == DictCopy(payload)

\* ------------------------------------------------------------------------
\* DataRepository (app/repository.py).  An operation maps the repository
\* r to [repo, outcome, ret]: the repository after the call, "ok" or the
\* exception raised, and the value returned.
\* ------------------------------------------------------------------------
Repo == [tasks |-> tasks, staff |-> staff,
         next_task_id |-> next_task_id, next_staff_id |-> next_staff_id,
         tasks_file |-> tasks_file, staff_file |-> staff_file]

\* index of the first record whose id is the given one, 0 when there is none
IndexOfId(records, id) ==
    IF \E i \in DOMAIN records : records[i]["id"] = PyInt(id)
    THEN CHOOSE i \in DOMAIN records :
            /\ records[i]["id"] = PyInt(id)
            /\ \A j \in DOMAIN records : records[j]["id"] = PyInt(id) => i <= j
    ELSE 0

\* records.pop(index)
Pop(records, index) ==
    [i \in 1..(Len(records) - 1) |-> IF i < index THEN records[i] ELSE records[i + 1]]

Max(S) == CHOOSE x \in S : \A y \in S : y <= x

\* _calculate_next_id counting the records instead of taking the highest id
_calculate_next_id_count(records) == Len(records) + 1

_calculate_next_id(records) ==
    IF records = <<>> THEN 1
    ELSE Max({records[i]["id"].v : i \in DOMAIN records}) + 1

_load_json(file, default) ==
    IF file = Absent THEN default ELSE json_loads(file)

_normalize_task(data) ==
    IF DictGet(data, "due_date") # None
    THEN DictSet(data, "due_date", PyStrOf(data["due_date"]))
    ELSE data

_normalize_task_update(data) ==
    IF "due_date" \in DOMAIN data /\ data["due_date"] # None
    THEN DictSet(data, "due_date", PyStrOf(data["due_date"]))
    ELSE data

\* write_text(json.dumps(...)): json.dumps runs first, so a TypeError leaves
\* the file as it was
_persist_tasks(r) ==
    IF JsonSerializable(r.tasks)
    THEN [ok |-> TRUE, repo |-> [r EXCEPT !.tasks_file = json_dumps(r.tasks)]]
    ELSE [ok |-> FALSE, repo |-> r]

\* _persist_staff writing to the tasks file
_persist_staff_tasks_file(r) ==
    IF JsonSerializable(r.staff)
    THEN [ok |-> TRUE, repo |-> [r EXCEPT !.tasks_file = json_dumps(r.staff)]]
    ELSE [ok |-> FALSE, repo |-> r]

_persist_staff(r) ==
    IF JsonSerializable(r.staff)
    THEN [ok |-> TRUE, repo |-> [r EXCEPT !.staff_file = json_dumps(r.staff)]]
    ELSE [ok |-> FALSE, repo |-> r]

\* the call's result once the persist step w has run
Returned(w, ret) ==
    [repo |-> w.repo,
     outcome |-> IF w.ok THEN "ok" ELSE "TypeError",
     ret |-> IF w.ok THEN ret ELSE None]

Raised(r, exc) == [repo |-> r, outcome |-> exc, ret |-> None]

list_staff(r) == [i \in DOMAIN r.staff |-> r.staff[i]]

staff_map(r) ==
    [id \in {r.staff[i]["id"].v : i \in DOMAIN r.staff} |->
        r.staff[CHOOSE i \in DOMAIN r.staff :
                   /\ r.staff[i]["id"].v = id
                   /\ \A j \in DOMAIN r.staff : r.staff[j]["id"].v = id => j <= i]]

list_tasks(r) == [i \in DOMAIN r.tasks |-> DictCopy(r.tasks[i])]

get_task(r, task_id) ==
    LET i == IndexOfId(r.tasks, task_id)
    IN  IF i = 0 THEN Raised(r, "KeyError")
        ELSE [repo |-> r, outcome |-> "ok", ret |-> r.tasks[i]]

\* create_task taking the id from the records it holds instead of the counter
create_task_recount(r, payload) ==
    LET data == DictSet(_normalize_task(model_dump(TaskBaseDefaults, payload)),
                        "id", PyInt(_calculate_next_id(r.tasks)))
        r1 == [r EXCEPT !.next_task_id = r.next_task_id + 1,
                        !.tasks = Append(r.tasks, data)]
    IN  Returned(_persist_tasks(r1), DictCopy(data))

create_task(r, payload) ==
    LET data == DictSet(_normalize_task(model_dump(TaskBaseDefaults, payload)),
                        "id", PyInt(r.next_task_id))
        r1 == [r EXCEPT !.next_task_id = r.next_task_id + 1,
                        !.tasks = Append(r.tasks, data)]
    IN  Returned(_persist_tasks(r1), DictCopy(data))

\* update_task dumping the payload without exclude_unset: an omitted field
\* arrives as None
update_task_full_dump(r, task_id, payload) ==
    LET update_data == _normalize_task_update(
                           model_dump([k \in TaskFields |-> None], payload))
        i == IndexOfId(r.tasks, task_id)
        task == DictUpdate(r.tasks[i], update_data)
        r1 == [r EXCEPT !.tasks[i] = task]
    IN  IF i = 0 THEN Raised(r, "KeyError")
        ELSE Returned(_persist_tasks(r1), DictCopy(task))

update_task(r, task_id, payload) ==
    LET update_data == _normalize_task_update(model_dump_exclude_unset(payload))
        i == IndexOfId(r.tasks, task_id)
        task == DictUpdate(r.tasks[i], update_data)
        r1 == [r EXCEPT !.tasks[i] = task]
    IN  IF i = 0 THEN Raised(r, "KeyError")
        ELSE Returned(_persist_tasks(r1), DictCopy(task))

\* delete_task without the index == -1 test: pop(-1) removes the last task
delete_task_unchecked(r, task_id) ==
    LET index == IndexOfId(r.tasks, task_id)
        r1 == [r EXCEPT !.tasks = Pop(r.tasks, IF index = 0 THEN Len(r.tasks) ELSE index)]
    IN  IF r.tasks = <<>> THEN Raised(r, "IndexError")
        ELSE Returned(_persist_tasks(r1), None)

delete_task(r, task_id) ==
    LET index == IndexOfId(r.tasks, task_id)
        r1 == [r EXCEPT !.tasks = Pop(r.tasks, index)]
    IN  IF index = 0 THEN Raised(r, "KeyError")
        ELSE Returned(_persist_tasks(r1), None)

\* move_task going through a whole TaskUpdate dump: the other fields are
\* overwritten with None
move_task_full_dump(r, task_id, quadrant) ==
    LET i == IndexOfId(r.tasks, task_id)
        task == DictUpdate(r.tasks[i],
                           model_dump([k \in TaskFields |-> None],
                                      "quadrant" :> PyInt(quadrant)))
        r1 == [r EXCEPT !.tasks[i] = task]
    IN  IF i = 0 THEN Raised(r, "KeyError")
        ELSE Returned(_persist_tasks(r1), DictCopy(task))

move_task(r, task_id, quadrant) ==
    LET i == IndexOfId(r.tasks, task_id)
        task == DictSet(r.tasks[i], "quadrant", PyInt(quadrant))
        r1 == [r EXCEPT !.tasks[i] = task]
    IN  IF i = 0 THEN Raised(r, "KeyError")
        ELSE Returned(_persist_tasks(r1), DictCopy(task))

create_staff(r, payload) ==
    LET data == DictSet(model_dump_exclude_unset(payload), "id", PyInt(r.next_staff_id))
        r1 == [r EXCEPT !.next_staff_id = r.next_staff_id + 1,
                        !.staff = Append(r.staff, data)]
    IN  Returned(_persist_staff(r1), DictCopy(data))

get_staff(r, staff_id) ==
    LET i == IndexOfId(r.staff, staff_id)
    IN  IF i = 0 THEN Raised(r, "KeyError")
        ELSE [repo |-> r, outcome |-> "ok", ret |-> r.staff[i]]

update_staff(r, staff_id, payload) ==
    LET update_data == model_dump_exclude_unset(payload)
        i == IndexOfId(r.staff, staff_id)
        member == DictUpdate(r.staff[i], update_data)
        r1 == [r EXCEPT !.staff[i] = member]
    IN  IF i = 0 THEN Raised(r, "KeyError")
        ELSE Returned(_persist_staff(r1), DictCopy(member))

delete_staff(r, staff_id) ==
    LET index == IndexOfId(r.staff, staff_id)
        r1 == [r EXCEPT !.staff = Pop(r.staff, index)]
    IN  IF index = 0 THEN Raised(r, "KeyError")
        ELSE Returned(_persist_staff(r1), None)

\* DataRepository(data_dir): the store as loaded from the two files
DataRepository(tfile, sfile) ==
    LET t == _load_json(tfile, <<>>)
        s == _load_json(sfile, <<>>)
    IN  [tasks |-> t, staff |-> s,
         next_task_id |-> _calculate_next_id(t),
         next_staff_id |-> _calculate_next_id(s),
         tasks_file |-> tfile, staff_file |-> sfile]

serialize_task(task, smap) ==
    LET owner_id == DictGet(task, "owner_id")
        owner == IF IsInt(owner_id) /\ owner_id.v \in DOMAIN smap
                 THEN smap[owner_id.v] ELSE None
    IN  [k \in (DOMAIN task) \cup {"owner"} |-> IF k = "owner" THEN owner ELSE task[k]]

\* ------------------------------------------------------------------------
\* Inputs
\* ------------------------------------------------------------------------
\* ids a caller asks for: every id the counters can reach
TaskIds == 1..MaxTaskId
StaffIds == 1..MaxStaffId

\* quadrant arguments: one inside and one above the range 1..4
QuadrantArgs == {2, 5}

\* payloads of a task create
TaskCreateBodies ==
    { ("title" :> PyStr("Draft review")) @@ ("owner_id" :> PyInt(1))
          @@ ("due_date" :> PyDate("2025-01-02")) @@ ("quadrant" :> PyInt(2)) }

\* payloads of a task update: the empty one, and one with a string, a date
\* and an explicit null
TaskUpdateBodies ==
    { EmptyDict,
      ("title" :> PyStr("Renamed")) @@ ("due_date" :> PyDate("2025-01-01"))
          @@ ("quadrant" :> None) }

\* payloads of a staff create
StaffCreateBodies ==
    { ("name" :> PyStr("Sato")) @@ ("photo" :> PyStr("sato.png"))
          @@ ("photo_q1" :> PyStr("sato_q1.png")) }

\* payloads of a staff update: empty, and a rename with an explicit null
StaffUpdateBodies ==
    { EmptyDict,
      ("name" :> PyStr("Ito")) @@ ("department" :> None) }

\* ------------------------------------------------------------------------
\* Calls on the store
\* ------------------------------------------------------------------------
Threads == 1..NumThreads

\* a thread that has not called yet
Idle == [pc |-> "idle", call |-> [op |-> "none"], data |-> EmptyDict,
         buf |-> Absent, outcome |-> "none"]

Init ==
    /\ tasks = DataRepository(Absent, Absent).tasks
    /\ staff = DataRepository(Absent, Absent).staff
    /\ next_task_id = DataRepository(Absent, Absent).next_task_id
    /\ next_staff_id = DataRepository(Absent, Absent).next_staff_id
    /\ tasks_file = Absent
    /\ staff_file = Absent
    /\ avatars = {}
    /\ issued_task_ids = <<>>
    /\ issued_staff_ids = <<>>
    /\ last = [op |-> "init", id |-> 0, q |-> 0, payload |-> EmptyDict,
               outcome |-> "ok", ret |-> None]
    /\ lock = 0
    /\ thr = [t \in Threads |-> Idle]
    /\ serial = DataRepository(Absent, Absent)

\* the store becomes res.repo
Apply(res) ==
    /\ tasks' = res.repo.tasks
    /\ staff' = res.repo.staff
    /\ next_task_id' = res.repo.next_task_id
    /\ next_staff_id' = res.repo.next_staff_id
    /\ tasks_file' = res.repo.tasks_file
    /\ staff_file' = res.repo.staff_file

\* the call is recorded
Record(op, id, q, payload, res) ==
    /\ last' = [op |-> op, id |-> id, q |-> q, payload |-> payload,
                outcome |-> res.outcome, ret |-> res.ret]
    /\ UNCHANGED <<lock, thr, serial>>

CallCreateTask ==
    \E body \in TaskCreateBodies :
        /\ TaskCreate(body)
        /\ next_task_id <= MaxTaskId
        /\ LET res == create_task(Repo, body)
           IN  /\ Apply(res)
               /\ Record("create_task", 0, 0, body, res)
               /\ issued_task_ids' =
                     Append(issued_task_ids, res.repo.tasks[Len(res.repo.tasks)]["id"].v)
               /\ UNCHANGED <<avatars, issued_staff_ids>>

CallUpdateTask ==
    \E id \in TaskIds, body \in TaskUpdateBodies :
        /\ TaskUpdate(body)
        /\ LET res == update_task(Repo, id, body)
           IN  /\ Apply(res)
               /\ Record("update_task", id, 0, body, res)
               /\ UNCHANGED <<avatars, issued_task_ids, issued_staff_ids>>

CallMoveTask ==
    \E id \in TaskIds, q \in QuadrantArgs :
        LET res == move_task(Repo, id, q)
        IN  /\ Apply(res)
            /\ Record("move_task", id, q, EmptyDict, res)
            /\ UNCHANGED <<avatars, issued_task_ids, issued_staff_ids>>

CallDeleteTask ==
    \E id \in TaskIds :
        LET res == delete_task(Repo, id)
        IN  /\ Apply(res)
            /\ Record("delete_task", id, 0, EmptyDict, res)
            /\ UNCHANGED <<avatars, issued_task_ids, issued_staff_ids>>

CallGetTask ==
    \E id \in TaskIds :
        LET res == get_task(Repo, id)
        IN  /\ Apply(res)
            /\ Record("get_task", id, 0, EmptyDict, res)
            /\ UNCHANGED <<avatars, issued_task_ids, issued_staff_ids>>

CallCreateStaff ==
    \E body \in StaffCreateBodies :
        /\ StaffCreate(body)
        /\ next_staff_id <= MaxStaffId
        /\ LET res == create_staff(Repo, body)
           IN  /\ Apply(res)
               /\ Record("create_staff", 0, 0, body, res)
               /\ issued_staff_ids' =
                     Append(issued_staff_ids, res.repo.staff[Len(res.repo.staff)]["id"].v)
               /\ UNCHANGED <<avatars, issued_task_ids>>

CallUpdateStaff ==
    \E id \in StaffIds, body \in StaffUpdateBodies :
        /\ StaffUpdate(body)
        /\ LET res == update_staff(Repo, id, body)
           IN  /\ Apply(res)
               /\ Record("update_staff", id, 0, body, res)
               /\ UNCHANGED <<avatars, issued_task_ids, issued_staff_ids>>

CallDeleteStaff ==
    \E id \in StaffIds :
        LET res == delete_staff(Repo, id)
        IN  /\ Apply(res)
            /\ Record("delete_staff", id, 0, EmptyDict, res)
            /\ UNCHANGED <<avatars, issued_task_ids, issued_staff_ids>>

CallGetStaff ==
    \E id \in StaffIds :
        LET res == get_staff(Repo, id)
        IN  /\ Apply(res)
            /\ Record("get_staff", id, 0, EmptyDict, res)
            /\ UNCHANGED <<avatars, issued_task_ids, issued_staff_ids>>

Next ==
    \/ CallCreateTask
    \/ CallUpdateTask
    \/ CallMoveTask
    \/ CallDeleteTask
    \/ CallGetTask
    \/ CallCreateStaff
    \/ CallUpdateStaff
    \/ CallDeleteStaff
    \/ CallGetStaff

Spec == Init /\ [][Next]_vars

\* ------------------------------------------------------------------------
\* Response models (app/schemas.py) and the request handlers (app/main.py).
\* A handler maps the store and the avatar directory to
\* [repo, avatars, outcome, ret]: outcome is the HTTP status of the response.
\* ------------------------------------------------------------------------
\* default of the GEMINI_ENABLED environment variable
GEMINI_ENABLED == TRUE

\* what generate_quadrant_avatars does: returns the four images or raises
GeminiOutcomes == {"ok", "GeminiConfigError", "GeminiAPIError"}

\* Staff(**d) validates (response model)
Staff(d) ==
    /\ d # None
    /\ {"id", "name"} \subseteq DOMAIN d
    /\ IsInt(d["id"])
    /\ IsStr(d["name"])
    /\ \A k \in DOMAIN d \cap (StaffFields \ {"name"}) : OptionalStr(d[k])

\* TaskOut(**d) validates (response model): TaskBase, id and a Staff owner
TaskOut(d) ==
    /\ {"id", "title", "owner_id", "owner"} \subseteq DOMAIN d
    /\ IsInt(d["id"])
    /\ IsStr(d["title"]) /\ MaxLength(d["title"], 80)
    /\ IsInt(d["owner_id"])
    /\ \A k \in DOMAIN d \cap {"description", "created_by", "department"} :
          OptionalStr(d[k])
    /\ "description" \in DOMAIN d => MaxLength(d["description"], 500)
    /\ "due_date" \in DOMAIN d =>
          (d["due_date"] = None \/ IsDate(d["due_date"]) \/ IsStr(d["due_date"]))
    /\ "status" \in DOMAIN d => d["status"] \in StatusLiteral
    /\ "priority" \in DOMAIN d => d["priority"] \in PriorityLiteral
    /\ "quadrant" \in DOMAIN d => QuadrantInRange(d["quadrant"])
    /\ Staff(d["owner"])

\* the strings that occur as due dates, in lexical order ("" is the key of a
\* task without one)
DueDateKeys == <<"", "2025-01-01", "2025-01-02">>

\* item.get("due_date") or ""
DueKey(item) ==
    LET d == DictGet(item, "due_date")
    IN  IF IsStr(d) THEN d.s ELSE ""

\* a < b on str
StrLess(a, b) ==
    \E i, j \in DOMAIN DueDateKeys :
        DueDateKeys[i] = a /\ DueDateKeys[j] = b /\ i < j

\* (a["quadrant"], due a) < (b["quadrant"], due b) on tuples of (int, str)
KeyLess(a, b) ==
    \/ /\ IsInt(a["quadrant"]) /\ IsInt(b["quadrant"])
       /\ a["quadrant"].v < b["quadrant"].v
    \/ a["quadrant"] = b["quadrant"] /\ StrLess(DueKey(a), DueKey(b))

\* comparing the keys raises TypeError when one quadrant is None and the
\* other is an int
KeysComparable(items) ==
    \A i, j \in DOMAIN items :
        items[i]["quadrant"] = items[j]["quadrant"]
        \/ (IsInt(items[i]["quadrant"]) /\ IsInt(items[j]["quadrant"]))

RECURSIVE SortInsert(_, _)
\* x put before the first element whose key is greater: list.sort is stable
SortInsert(sorted, x) ==
    IF sorted = <<>> THEN <<x>>
    ELSE IF KeyLess(x, sorted[Len(sorted)])
         THEN Append(SortInsert(SubSeq(sorted, 1, Len(sorted) - 1), x), sorted[Len(sorted)])
         ELSE Append(sorted, x)

RECURSIVE ListSort(_)
ListSort(items) ==
    IF items = <<>> THEN <<>>
    ELSE SortInsert(ListSort(SubSeq(items, 1, Len(items) - 1)), items[Len(items)])

\* _serialized_tasks without tasks.sort
_serialized_tasks_unsorted(r) ==
    LET smap == staff_map(r)
        copies == list_tasks(r)
        items == [i \in DOMAIN copies |-> serialize_task(copies[i], smap)]
    IN  [outcome |-> "ok", ret |-> items]

_serialized_tasks(r) ==
    LET smap == staff_map(r)
        copies == list_tasks(r)
        items == [i \in DOMAIN copies |-> serialize_task(copies[i], smap)]
    IN  IF KeysComparable(items)
        THEN [outcome |-> "ok", ret |-> ListSort(items)]
        ELSE [outcome |-> "TypeError", ret |-> None]

\* _ensure_staff does not raise
_ensure_staff(r, owner_id) == owner_id \in DOMAIN staff_map(r)

\* the response of a handler
Response(r, files, code, ret) ==
    [repo |-> r, avatars |-> files, outcome |-> code, ret |-> ret]

\* a returned dict goes through the response model; an exception of the
\* store, or a dict the model rejects, is answered with 500
Respond(res, files, code, valid) ==
    IF res.outcome = "ok" /\ valid
    THEN Response(res.repo, files, code, res.ret)
    ELSE Response(res.repo, files, "500", None)

api_tasks(r, files) ==
    LET listed == _serialized_tasks(r)
    IN  IF listed.outcome = "ok" /\ \A i \in DOMAIN listed.ret : TaskOut(listed.ret[i])
        THEN Response(r, files, "200", listed.ret)
        ELSE Response(r, files, "500", None)

api_staff(r, files) ==
    LET listed == list_staff(r)
    IN  IF \A i \in DOMAIN listed : Staff(listed[i])
        THEN Response(r, files, "200", listed)
        ELSE Response(r, files, "500", None)

api_create_task(r, files, body) ==
    IF ~TaskCreate(body) THEN Response(r, files, "422", None)
    ELSE IF ~_ensure_staff(r, body["owner_id"].v) THEN Response(r, files, "400", None)
    ELSE LET res == create_task(r, body)
             out == serialize_task(res.ret, staff_map(res.repo))
         IN  Respond([res EXCEPT !.ret = out], files, "201",
                     res.outcome = "ok" /\ TaskOut(out))

api_update_task(r, files, task_id, body) ==
    IF ~TaskUpdate(body) THEN Response(r, files, "422", None)
    ELSE IF get_task(r, task_id).outcome # "ok" THEN Response(r, files, "404", None)
    ELSE IF /\ DictGet(body, "owner_id") # None
            /\ ~_ensure_staff(r, body["owner_id"].v)
         THEN Response(r, files, "400", None)
    ELSE LET res == update_task(r, task_id, body)
             out == serialize_task(res.ret, staff_map(res.repo))
         IN  Respond([res EXCEPT !.ret = out], files, "200",
                     res.outcome = "ok" /\ TaskOut(out))

api_move_task(r, files, task_id, q) ==
    IF ~TaskQuadrantUpdate(q) THEN Response(r, files, "422", None)
    ELSE IF get_task(r, task_id).outcome # "ok" THEN Response(r, files, "404", None)
    ELSE LET res == move_task(r, task_id, q)
             out == serialize_task(res.ret, staff_map(res.repo))
         IN  Respond([res EXCEPT !.ret = out], files, "200",
                     res.outcome = "ok" /\ TaskOut(out))

api_delete_task(r, files, task_id) ==
    IF get_task(r, task_id).outcome # "ok" THEN Response(r, files, "404", None)
    ELSE Respond(delete_task(r, task_id), files, "204", TRUE)

\* uuid4() values the model draws from: one per staff record, and one more
\* for a replacement made while the old files are still referenced
Uuids == 1..(MaxStaffId + 1)

\* file names built on one uuid: the uploaded photo and its four variants
Suffixes == [photo |-> ".png", photo_q1 |-> "_q1.png", photo_q2 |-> "_q2.png",
             photo_q3 |-> "_q3.png", photo_q4 |-> "_q4.png"]

FileName(u, key) == "u" \o ToString(u) \o Suffixes[key]

\* the files of a staff record: staff[key] for the keys that are set
PhotoFiles(member) ==
    {member[k].s : k \in {k \in PhotoKeys \cap DOMAIN member :
                            IsStr(member[k]) /\ member[k].s # ""}}

\* uuid4(): a value that no file name in use, stored or referred to, has
uuid4(r, files) ==
    LET inuse == files \cup UNION {PhotoFiles(r.staff[i]) : i \in DOMAIN r.staff}
        free == {u \in Uuids : \A k \in PhotoKeys : FileName(u, k) \notin inuse}
    IN  CHOOSE u \in free : \A v \in free : u <= v

\* department if department else None
FormText(x) == IF IsStr(x) /\ x.s # "" THEN x ELSE None

\* photo_q1..photo_q4 after the generation step: the four saved names when
\* it returned, None when it was skipped or raised
QuadrantPhotos(u, generated) ==
    [k \in PhotoKeys \ {"photo"} |-> IF generated THEN PyStr(FileName(u, k)) ELSE None]

\* api_create_staff without the two except clauses: an exception of the
\* generation step ends the request
api_create_staff_uncaught(r, files, name, department, upload, gemini) ==
    LET u == uuid4(r, files)
        photo_filename == IF upload THEN PyStr(FileName(u, "photo")) ELSE None
        generated == GEMINI_ENABLED /\ upload /\ gemini = "ok"
        saved == (IF upload THEN {FileName(u, "photo")} ELSE {})
                 \cup (IF generated THEN {FileName(u, k) : k \in PhotoKeys} ELSE {})
        payload == ("name" :> name) @@ ("department" :> FormText(department))
                   @@ ("photo" :> photo_filename) @@ QuadrantPhotos(u, generated)
        res == create_staff(r, payload)
    IN  IF GEMINI_ENABLED /\ upload /\ gemini # "ok"
        THEN Response(r, files \cup saved, "500", None)
        ELSE IF ~StaffCreate(payload) THEN Response(r, files \cup saved, "500", None)
        ELSE Respond(res, files \cup saved, "201", Staff(res.ret))

api_create_staff(r, files, name, department, upload, gemini) ==
    LET u == uuid4(r, files)
        photo_filename == IF upload THEN PyStr(FileName(u, "photo")) ELSE None
        generated == GEMINI_ENABLED /\ upload /\ gemini = "ok"
        saved == (IF upload THEN {FileName(u, "photo")} ELSE {})
                 \cup (IF generated THEN {FileName(u, k) : k \in PhotoKeys} ELSE {})
        payload == ("name" :> name) @@ ("department" :> FormText(department))
                   @@ ("photo" :> photo_filename) @@ QuadrantPhotos(u, generated)
        res == create_staff(r, payload)
    IN  IF ~StaffCreate(payload) THEN Response(r, files \cup saved, "500", None)
        ELSE Respond(res, files \cup saved, "201", Staff(res.ret))

\* api_update_staff passing photo_q1..photo_q4 whether or not a photo came
api_update_staff_all_fields(r, files, staff_id, name, department, upload, gemini) ==
    LET found == get_staff(r, staff_id)
        member == found.ret
        kept == IF upload THEN files \ PhotoFiles(member) ELSE files
        u == uuid4(r, kept)
        photo_filename == IF upload THEN PyStr(FileName(u, "photo"))
                          ELSE DictGet(member, "photo")
        generated == upload /\ GEMINI_ENABLED /\ gemini = "ok"
        saved == (IF upload THEN {FileName(u, "photo")} ELSE {})
                 \cup (IF generated THEN {FileName(u, k) : k \in PhotoKeys} ELSE {})
        payload == ("name" :> name) @@ ("department" :> FormText(department))
                   @@ ("photo" :> photo_filename) @@ QuadrantPhotos(u, generated)
        res == update_staff(r, staff_id, payload)
    IN  IF found.outcome # "ok" THEN Response(r, files, "404", None)
        ELSE IF ~StaffUpdate(payload) THEN Response(r, kept \cup saved, "500", None)
        ELSE Respond(res, kept \cup saved, "200", Staff(res.ret))

api_update_staff(r, files, staff_id, name, department, upload, gemini) ==
    LET found == get_staff(r, staff_id)
        member == found.ret
        new_image_uploaded == upload
        kept == IF upload THEN files \ PhotoFiles(member) ELSE files
        u == uuid4(r, kept)
        photo_filename == IF upload THEN PyStr(FileName(u, "photo"))
                          ELSE DictGet(member, "photo")
        generated == new_image_uploaded /\ GEMINI_ENABLED /\ gemini = "ok"
        saved == (IF upload THEN {FileName(u, "photo")} ELSE {})
                 \cup (IF generated THEN {FileName(u, k) : k \in PhotoKeys} ELSE {})
        update_kwargs == ("name" :> name) @@ ("department" :> FormText(department))
                         @@ ("photo" :> photo_filename)
        payload == IF new_image_uploaded
                   THEN update_kwargs @@ QuadrantPhotos(u, generated)
                   ELSE update_kwargs
        res == update_staff(r, staff_id, payload)
    IN  IF found.outcome # "ok" THEN Response(r, files, "404", None)
        ELSE IF ~StaffUpdate(payload) THEN Response(r, kept \cup saved, "500", None)
        ELSE Respond(res, kept \cup saved, "200", Staff(res.ret))

api_delete_staff(r, files, staff_id) ==
    LET found == get_staff(r, staff_id)
        kept == files \ PhotoFiles(found.ret)
    IN  IF found.outcome # "ok" THEN Response(r, files, "404", None)
        ELSE Respond(delete_staff(r, staff_id), kept, "204", TRUE)

\* ------------------------------------------------------------------------
\* Requests
\* ------------------------------------------------------------------------
\* bodies of POST /api/tasks: a valid one and one with quadrant 5
PostTaskBodies ==
    TaskCreateBodies \cup
    { ("title" :> PyStr("Draft review")) @@ ("owner_id" :> PyInt(1))
          @@ ("quadrant" :> PyInt(5)) }

\* bodies of PUT /api/tasks/{id}: those of the store calls and quadrant 5
PutTaskBodies == TaskUpdateBodies \cup { "quadrant" :> PyInt(5) }

\* quadrants of PATCH /api/tasks/{id}/quadrant: those of the store calls
\* and one below the range
PatchQuadrants == QuadrantArgs \cup {0}

\* the store and the avatar directory become those of the response
ApplyResponse(rsp) ==
    /\ Apply(rsp)
    /\ avatars' = rsp.avatars

GetTasks ==
    LET rsp == api_tasks(Repo, avatars)
    IN  /\ ApplyResponse(rsp)
        /\ Record("api_tasks", 0, 0, EmptyDict, rsp)
        /\ UNCHANGED <<issued_task_ids, issued_staff_ids>>

GetStaff ==
    LET rsp == api_staff(Repo, avatars)
    IN  /\ ApplyResponse(rsp)
        /\ Record("api_staff", 0, 0, EmptyDict, rsp)
        /\ UNCHANGED <<issued_task_ids, issued_staff_ids>>

PostTask ==
    \E body \in PostTaskBodies :
        /\ next_task_id <= MaxTaskId
        /\ LET rsp == api_create_task(Repo, avatars, body)
           IN  /\ ApplyResponse(rsp)
               /\ Record("api_create_task", 0, 0, body, rsp)
               /\ issued_task_ids' =
                     IF Len(rsp.repo.tasks) > Len(tasks)
                     THEN Append(issued_task_ids, rsp.repo.tasks[Len(rsp.repo.tasks)]["id"].v)
                     ELSE issued_task_ids
               /\ UNCHANGED issued_staff_ids

PutTask ==
    \E id \in TaskIds, body \in PutTaskBodies :
        LET rsp == api_update_task(Repo, avatars, id, body)
        IN  /\ ApplyResponse(rsp)
            /\ Record("api_update_task", id, 0, body, rsp)
            /\ UNCHANGED <<issued_task_ids, issued_staff_ids>>

PatchTaskQuadrant ==
    \E id \in TaskIds, q \in PatchQuadrants :
        LET rsp == api_move_task(Repo, avatars, id, q)
        IN  /\ ApplyResponse(rsp)
            /\ Record("api_move_task", id, q, EmptyDict, rsp)
            /\ UNCHANGED <<issued_task_ids, issued_staff_ids>>

DeleteTask ==
    \E id \in TaskIds :
        LET rsp == api_delete_task(Repo, avatars, id)
        IN  /\ ApplyResponse(rsp)
            /\ Record("api_delete_task", id, 0, EmptyDict, rsp)
            /\ UNCHANGED <<issued_task_ids, issued_staff_ids>>

PostStaff ==
    \E upload \in BOOLEAN, gemini \in GeminiOutcomes :
        /\ next_staff_id <= MaxStaffId
        /\ LET rsp == api_create_staff(Repo, avatars, PyStr("Sato"), PyStr("Sales"),
                                       upload, gemini)
           IN  /\ ApplyResponse(rsp)
               /\ Record("api_create_staff", 0, 0,
                         [upload |-> upload, gemini |-> gemini], rsp)
               /\ issued_staff_ids' =
                     IF Len(rsp.repo.staff) > Len(staff)
                     THEN Append(issued_staff_ids, rsp.repo.staff[Len(rsp.repo.staff)]["id"].v)
                     ELSE issued_staff_ids
               /\ UNCHANGED issued_task_ids

PutStaff ==
    \E id \in StaffIds, upload \in BOOLEAN, gemini \in GeminiOutcomes :
        LET rsp == api_update_staff(Repo, avatars, id, PyStr("Ito"), PyStr(""),
                                    upload, gemini)
        IN  /\ ApplyResponse(rsp)
            /\ Record("api_update_staff", id, 0,
                      [upload |-> upload, gemini |-> gemini], rsp)
            /\ UNCHANGED <<issued_task_ids, issued_staff_ids>>

DeleteStaff ==
    \E id \in StaffIds :
        LET rsp == api_delete_staff(Repo, avatars, id)
        IN  /\ ApplyResponse(rsp)
            /\ Record("api_delete_staff", id, 0, EmptyDict, rsp)
            /\ UNCHANGED <<issued_task_ids, issued_staff_ids>>

NextApi ==
    \/ GetTasks
    \/ GetStaff
    \/ PostTask
    \/ PutTask
    \/ PatchTaskQuadrant
    \/ DeleteTask
    \/ PostStaff
    \/ PutStaff
    \/ DeleteStaff

\* the store as the request handlers drive it
SpecApi == Init /\ [][NextApi]_vars

NextStaff ==
    \/ CallCreateStaff
    \/ CallUpdateStaff
    \/ CallDeleteStaff
    \/ CallGetStaff
    \/ PostStaff
    \/ PutStaff
    \/ DeleteStaff

\* the Staff collection under store calls and staff requests together
SpecStaff == Init /\ [][NextStaff]_vars

NextTasks ==
    \/ CallCreateStaff
    \/ CallCreateTask
    \/ CallUpdateTask
    \/ CallMoveTask
    \/ CallDeleteTask
    \/ CallGetTask
    \/ GetTasks
    \/ PostTask
    \/ PutTask
    \/ PatchTaskQuadrant
    \/ DeleteTask

\* the Task collection under store calls and task requests together
SpecTasks == Init /\ [][NextTasks]_vars

\* ------------------------------------------------------------------------
\* Properties
\* ------------------------------------------------------------------------
StrictlyIncreasing(ids) == \A i, j \in DOMAIN ids : i < j => ids[i] < ids[j]

\* no record of the collection has the id
NoRecordHas(records, id) == \A i \in DOMAIN records : records[i]["id"] # PyInt(id)

C2_MoveTaskChangesOnlyQuadrant ==
    [][(last'.op = "move_task" /\ last'.outcome = "ok") =>
          /\ DOMAIN tasks' = DOMAIN tasks
          /\ \A i \in DOMAIN tasks :
                IF tasks[i]["id"] = PyInt(last'.id)
                THEN /\ DOMAIN tasks'[i] = DOMAIN tasks[i]
                     /\ \A k \in DOMAIN tasks[i] \ {"quadrant"} :
                           tasks'[i][k] = tasks[i][k]
                     /\ tasks'[i]["quadrant"] = PyInt(last'.q)
                ELSE tasks'[i] = tasks[i]
          /\ UNCHANGED <<staff, next_task_id, next_staff_id, staff_file>>]_vars

\* the second of two tasks, renamed earlier, was moved to quadrant 2 while a
\* staff record exists and the first task is in another quadrant
C2_Witness ==
    /\ last.op = "move_task" /\ last.outcome = "ok" /\ last.id = 2 /\ last.q = 2
    /\ Len(tasks) = 2 /\ Len(staff) = 1
    /\ tasks[2]["title"] = PyStr("Renamed")
    /\ tasks[2]["quadrant"] = PyInt(2)
    /\ tasks[1]["quadrant"] = PyInt(5)

C4_QuadrantInRange ==
    \A i \in DOMAIN tasks : QuadrantInRange(tasks[i]["quadrant"])

\* the stored form of a payload value: a date is kept as its ISO string
StoredForm(v) == IF v.t = "date" THEN PyStr(v.d) ELSE v

\* the record old with exactly the fields of the partial payload overwritten
Merged(old, partial) ==
    [k \in (DOMAIN old) \cup (DOMAIN partial) |->
        IF k \in DOMAIN partial THEN StoredForm(partial[k]) ELSE old[k]]

\* C5: a successful update_task (update_staff) leaves the collection as it
\* was except for the record with the given id, which becomes the old record
\* with exactly the fields of the partial payload overwritten, a null
\* included; with the empty payload the record stays as it was.
C5_UpdateIsMerge ==
    [][/\ (last'.op = "update_task" /\ last'.outcome = "ok") =>
             /\ DOMAIN tasks' = DOMAIN tasks
             /\ \A i \in DOMAIN tasks :
                   tasks'[i] = IF tasks[i]["id"] = PyInt(last'.id)
                               THEN Merged(tasks[i], last'.payload)
                               ELSE tasks[i]
             /\ last'.payload = EmptyDict => tasks' = tasks
       /\ (last'.op = "update_staff" /\ last'.outcome = "ok") =>
             /\ DOMAIN staff' = DOMAIN staff
             /\ \A i \in DOMAIN staff :
                   staff'[i] = IF staff[i]["id"] = PyInt(last'.id)
                               THEN Merged(staff[i], last'.payload)
                               ELSE staff[i]
             /\ last'.payload = EmptyDict => staff' = staff]_vars

\* the second of two tasks was updated with a payload that carries a title,
\* a date and an explicit null: the title is the new one, the due date is
\* the ISO string of the date, the quadrant is cleared and the owner, which
\* the payload omits, is the one the task was created with
C5_Witness ==
    /\ last.op = "update_task" /\ last.outcome = "ok" /\ last.id = 2
    /\ DOMAIN last.payload = {"title", "due_date", "quadrant"}
    /\ Len(tasks) = 2
    /\ tasks[1]["title"] = PyStr("Draft review")
    /\ tasks[2]["id"] = PyInt(2)
    /\ tasks[2]["quadrant"] = None
    /\ tasks[2]["title"] = PyStr("Renamed")
    /\ tasks[2]["due_date"] = PyStr("2025-01-01")
    /\ tasks[2]["owner_id"] = PyInt(1)

\* the five photo references of a record, an unset one read as None
Photos(member) == [k \in PhotoKeys |-> DictGet(member, k)]

\* C6: update_staff with a payload that has none of photo, photo_q1..photo_q4
\* leaves those five fields of the record exactly as they were, and a
\* staff-update request without an uploaded photo leaves the five stored
\* values as they were.
C6_PhotosPreserved ==
    [][/\ (/\ last'.op = "update_staff" /\ last'.outcome = "ok"
           /\ DOMAIN last'.payload \cap PhotoKeys = {}) =>
             \A i \in DOMAIN staff :
                 /\ DOMAIN staff'[i] \cap PhotoKeys = DOMAIN staff[i] \cap PhotoKeys
                 /\ Photos(staff'[i]) = Photos(staff[i])
       /\ (/\ last'.op = "api_update_staff" /\ last'.outcome = "200"
           /\ ~last'.payload.upload) =>
             /\ DOMAIN staff' = DOMAIN staff
             /\ \A i \in DOMAIN staff : Photos(staff'[i]) = Photos(staff[i])]_vars

\* a record that has a photo and four variants was renamed by a request
\* without an upload
C6_Witness ==
    /\ last.op = "api_update_staff" /\ last.outcome = "200" /\ ~last.payload.upload
    /\ Len(staff) = 1
    /\ staff[1]["name"] = PyStr("Ito")
    /\ \A k \in PhotoKeys : IsStr(DictGet(staff[1], k))

MutatingCalls == {"create_task", "update_task", "move_task", "delete_task",
                  "create_staff", "update_staff", "delete_staff"}

\* C7: after a successful mutating call, the records in each file are the
\* records in memory, in the same order: a store built from the two files
\* holds the same tasks and the same staff.
C7_FilesMirrorMemory ==
    (last.op \in MutatingCalls /\ last.outcome = "ok") =>
        /\ tasks_file # Absent => json_loads(tasks_file) = tasks
        /\ staff_file # Absent => json_loads(staff_file) = staff
        /\ DataRepository(tasks_file, staff_file).tasks = tasks
        /\ DataRepository(tasks_file, staff_file).staff = staff

\* two tasks with a due date and a staff record are in memory and on file
\* after an update
C7_Witness ==
    /\ last.op = "update_task" /\ last.outcome = "ok"
    /\ Len(tasks) = 2 /\ Len(staff) = 1
    /\ tasks[2]["due_date"] = PyStr("2025-01-01")
    /\ tasks_file # Absent /\ staff_file # Absent

\* the owner of the task is the id of no staff record
Dangling(task) == NoRecordHas(staff, task["owner_id"].v)

\* C8: deleting a staff record leaves the tasks as they were, also those it
\* owns; a task list requested while a task of an otherwise valid
\* collection has no owner record is answered with every task, the owner of
\* such a task being null.
C8_DanglingOwnerListed ==
    [][/\ (last'.op = "api_delete_staff" /\ last'.outcome = "204") =>
             UNCHANGED <<tasks, tasks_file, next_task_id>>
       /\ (/\ last'.op = "api_tasks"
           /\ \A i \in DOMAIN tasks : QuadrantInRange(tasks[i]["quadrant"])
           /\ \E i \in DOMAIN tasks : Dangling(tasks[i])) =>
             /\ last'.outcome = "200"
             /\ Len(last'.ret) = Len(tasks)
             /\ \A i \in DOMAIN last'.ret :
                   Dangling(last'.ret[i]) => last'.ret[i]["owner"] = None]_vars

IdCalls == {"get_task", "update_task", "move_task", "delete_task",
            "get_staff", "update_staff", "delete_staff"}

\* C9: a call of get_task, update_task, move_task or delete_task with an id
\* that no task has, and a call of get_staff, update_staff or delete_staff
\* with an id that no staff record has, raises KeyError and leaves the
\* tasks, the staff, the two counters and the two files as they were.
C9_UnknownIdRaises ==
    [][(/\ last'.op \in IdCalls
        /\ NoRecordHas(IF last'.op \in {"get_staff", "update_staff", "delete_staff"}
                       THEN staff ELSE tasks, last'.id)) =>
          /\ last'.outcome = "KeyError"
          /\ UNCHANGED store]_vars

\* delete_task was called with the id of a deleted task while another task
\* is stored
C9_Witness ==
    /\ last.op = "delete_task" /\ last.outcome = "KeyError" /\ last.id = 1
    /\ Len(tasks) = 1 /\ tasks[1]["id"] = PyInt(2)
    /\ tasks_file # Absent

\* ------------------------------------------------------------------------
\* Threads calling the store concurrently: a call is a sequence of steps,
\* those inside "with self._lock" taken while the thread holds the lock
\* ------------------------------------------------------------------------
TaskCalls == {"create_task", "update_task", "move_task", "delete_task"}

\* the calls a thread chooses from; task 1 and staff 1 exist at the start,
\* task 2 exists once a concurrent create_task has appended it
ThreadCalls ==
    { [op |-> "create_task", id |-> 0, q |-> 0, payload |-> b] : b \in TaskCreateBodies }
    \cup { [op |-> "update_task", id |-> 1, q |-> 0,
            payload |-> ("title" :> PyStr("Renamed")) @@ ("due_date" :> PyDate("2025-01-01"))],
           [op |-> "move_task", id |-> 1, q |-> 1, payload |-> EmptyDict],
           [op |-> "move_task", id |-> 2, q |-> 1, payload |-> EmptyDict],
           [op |-> "delete_task", id |-> 1, q |-> 0, payload |-> EmptyDict],
           [op |-> "update_staff", id |-> 1, q |-> 0,
            payload |-> ("name" :> PyStr("Ito")) @@ ("department" :> None)],
           [op |-> "delete_staff", id |-> 1, q |-> 0, payload |-> EmptyDict] }
    \cup { [op |-> "create_staff", id |-> 0, q |-> 0, payload |-> b] : b \in StaffCreateBodies }

\* the call run as a whole on the store r
RunCall(r, c) ==
    CASE c.op = "create_task" -> create_task(r, c.payload)
      [] c.op = "update_task" -> update_task(r, c.id, c.payload)
      [] c.op = "move_task" -> move_task(r, c.id, c.q)
      [] c.op = "delete_task" -> delete_task(r, c.id)
      [] c.op = "create_staff" -> create_staff(r, c.payload)
      [] c.op = "update_staff" -> update_staff(r, c.id, c.payload)
      [] c.op = "delete_staff" -> delete_staff(r, c.id)

\* the lines of a call that come before "with self._lock"
Prepared(c) ==
    CASE c.op = "create_task" -> _normalize_task(model_dump(TaskBaseDefaults, c.payload))
      [] c.op = "update_task" -> _normalize_task_update(model_dump_exclude_unset(c.payload))
      [] c.op \in {"create_staff", "update_staff"} -> model_dump_exclude_unset(c.payload)
      [] OTHER -> EmptyDict

\* a lock that every call creates for itself is always free
acquire_own_lock(l) == TRUE

\* Lock.acquire() returns: the lock is free
acquire(l) == l = 0

\* a store with one staff record and one task, as two creates leave it
Seeded ==
    LET r0 == DataRepository(Absent, Absent)
        r1 == create_staff(r0, CHOOSE b \in StaffCreateBodies : TRUE).repo
    IN  create_task(r1, CHOOSE b \in TaskCreateBodies : TRUE).repo

InitThreads ==
    /\ tasks = Seeded.tasks
    /\ staff = Seeded.staff
    /\ next_task_id = Seeded.next_task_id
    /\ next_staff_id = Seeded.next_staff_id
    /\ tasks_file = Seeded.tasks_file
    /\ staff_file = Seeded.staff_file
    /\ avatars = {}
    /\ issued_task_ids = <<1>>
    /\ issued_staff_ids = <<1>>
    /\ last = [op |-> "init", id |-> 0, q |-> 0, payload |-> EmptyDict,
               outcome |-> "ok", ret |-> None]
    /\ lock = 0
    /\ thr = [t \in Threads |-> Idle]
    /\ serial = Seeded

\* thread t goes to step pc
Goto(t, pc) == thr' = [thr EXCEPT ![t].pc = pc]

\* the call of thread t raises and is over with the lock still held
Raise_holding_lock(t, exc) == thr' = [thr EXCEPT ![t].pc = "done", ![t].outcome = exc]

\* the call of thread t raises: the with statement releases the lock next
Raise(t, exc) == thr' = [thr EXCEPT ![t].pc = "release", ![t].outcome = exc]

\* t starts a call and runs it up to the with statement
Begin(t) ==
    /\ thr[t].pc = "idle"
    /\ \E c \in ThreadCalls :
          thr' = [thr EXCEPT ![t] = [pc |-> "acquire", call |-> c, data |-> Prepared(c),
                                     buf |-> Absent, outcome |-> "running"]]
    /\ UNCHANGED <<store, avatars, issued_task_ids, issued_staff_ids, last, lock, serial>>

\* with self._lock: t takes the lock
Acquire(t) ==
    /\ thr[t].pc = "acquire"
    /\ acquire(lock)
    /\ lock' = t
    /\ Goto(t, IF thr[t].call.op \in {"create_task", "create_staff"}
               THEN "assign" ELSE "mutate")
    /\ serial' = RunCall(serial, thr[t].call).repo
    /\ UNCHANGED <<store, avatars, issued_task_ids, issued_staff_ids, last>>

\* data["id"] = self._next_task_id (self._next_staff_id)
Assign(t) ==
    /\ thr[t].pc = "assign"
    /\ LET id == IF thr[t].call.op = "create_task" THEN next_task_id ELSE next_staff_id
       IN  /\ thr' = [thr EXCEPT ![t].pc = "increment",
                                 ![t].data = DictSet(@, "id", PyInt(id))]
           /\ IF thr[t].call.op = "create_task"
              THEN /\ issued_task_ids' = Append(issued_task_ids, id)
                   /\ UNCHANGED issued_staff_ids
              ELSE /\ issued_staff_ids' = Append(issued_staff_ids, id)
                   /\ UNCHANGED issued_task_ids
    /\ UNCHANGED <<store, avatars, last, lock, serial>>

\* create_task (create_staff) without its increment of the counter
Increment_skipped(t) ==
    /\ thr[t].pc = "increment"
    /\ Goto(t, "append")
    /\ UNCHANGED <<store, avatars, issued_task_ids, issued_staff_ids, last, lock, serial>>

\* self._next_task_id += 1 (self._next_staff_id += 1)
Increment(t) ==
    /\ thr[t].pc = "increment"
    /\ IF thr[t].call.op = "create_task"
       THEN next_task_id' = next_task_id + 1 /\ UNCHANGED next_staff_id
       ELSE next_staff_id' = next_staff_id + 1 /\ UNCHANGED next_task_id
    /\ Goto(t, "append")
    /\ UNCHANGED <<tasks, staff, tasks_file, staff_file, avatars,
                   issued_task_ids, issued_staff_ids, last, lock, serial>>

\* self._tasks.append(data) (self._staff.append(data))
AppendData(t) ==
    /\ thr[t].pc = "append"
    /\ IF thr[t].call.op = "create_task"
       THEN tasks' = Append(tasks, thr[t].data) /\ UNCHANGED staff
       ELSE staff' = Append(staff, thr[t].data) /\ UNCHANGED tasks
    /\ Goto(t, "dumps")
    /\ UNCHANGED <<next_task_id, next_staff_id, tasks_file, staff_file, avatars,
                   issued_task_ids, issued_staff_ids, last, lock, serial>>

\* Mutate with the update written as a loop of item assignments, one field
\* of the payload per step
Mutate_fieldwise(t) ==
    /\ thr[t].pc = "mutate"
    /\ LET c == thr[t].call
           records == IF c.op \in TaskCalls THEN tasks ELSE staff
           i == IndexOfId(records, c.id)
           pending == IF i = 0 THEN {}
                      ELSE {k \in DOMAIN thr[t].data :
                               DictGet(records[i], k) # thr[t].data[k]}
           changed == CASE c.op \in {"update_task", "update_staff"} ->
                              IF pending = {} THEN records
                              ELSE LET k == CHOOSE k \in pending : TRUE
                                   IN  [records EXCEPT ![i] = DictSet(@, k, thr[t].data[k])]
                        [] c.op = "move_task" ->
                              [records EXCEPT ![i] = DictSet(@, "quadrant", PyInt(c.q))]
                        [] OTHER -> Pop(records, i)
       IN  IF i = 0
           THEN Raise(t, "KeyError") /\ UNCHANGED <<tasks, staff>>
           ELSE /\ Goto(t, IF c.op \in {"update_task", "update_staff"}
                                /\ Cardinality(pending) > 1
                           THEN "mutate" ELSE "dumps")
                /\ IF c.op \in TaskCalls
                   THEN tasks' = changed /\ UNCHANGED staff
                   ELSE staff' = changed /\ UNCHANGED tasks
    /\ UNCHANGED <<next_task_id, next_staff_id, tasks_file, staff_file, avatars,
                   issued_task_ids, issued_staff_ids, last, lock, serial>>

\* the lookup and the change in memory of an update, a move or a delete
Mutate(t) ==
    /\ thr[t].pc = "mutate"
    /\ LET c == thr[t].call
           records == IF c.op \in TaskCalls THEN tasks ELSE staff
           i == IndexOfId(records, c.id)
           changed == CASE c.op \in {"update_task", "update_staff"} ->
                              [records EXCEPT ![i] = DictUpdate(@, thr[t].data)]
                        [] c.op = "move_task" ->
                              [records EXCEPT ![i] = DictSet(@, "quadrant", PyInt(c.q))]
                        [] OTHER -> Pop(records, i)
       IN  IF i = 0
           THEN Raise(t, "KeyError") /\ UNCHANGED <<tasks, staff>>
           ELSE /\ Goto(t, "dumps")
                /\ IF c.op \in TaskCalls
                   THEN tasks' = changed /\ UNCHANGED staff
                   ELSE staff' = changed /\ UNCHANGED tasks
    /\ UNCHANGED <<next_task_id, next_staff_id, tasks_file, staff_file, avatars,
                   issued_task_ids, issued_staff_ids, last, lock, serial>>

\* json.dumps(self._tasks, ...) (json.dumps(self._staff, ...))
Dumps(t) ==
    /\ thr[t].pc = "dumps"
    /\ LET records == IF thr[t].call.op \in TaskCalls THEN tasks ELSE staff
       IN  IF JsonSerializable(records)
           THEN thr' = [thr EXCEPT ![t].pc = "write", ![t].buf = json_dumps(records)]
           ELSE Raise(t, "TypeError")
    /\ UNCHANGED <<store, avatars, issued_task_ids, issued_staff_ids, last, lock, serial>>

\* self._tasks_file.write_text(...) (self._staff_file.write_text(...))
WriteText(t) ==
    /\ thr[t].pc = "write"
    /\ IF thr[t].call.op \in TaskCalls
       THEN tasks_file' = thr[t].buf /\ UNCHANGED staff_file
       ELSE staff_file' = thr[t].buf /\ UNCHANGED tasks_file
    /\ thr' = [thr EXCEPT ![t].pc = "release", ![t].outcome = "ok"]
    /\ UNCHANGED <<tasks, staff, next_task_id, next_staff_id, avatars,
                   issued_task_ids, issued_staff_ids, last, lock, serial>>

\* the end of the with statement: the lock is released, the call is over
Release(t) ==
    /\ thr[t].pc = "release"
    /\ lock' = 0
    /\ Goto(t, "done")
    /\ UNCHANGED <<store, avatars, issued_task_ids, issued_staff_ids, last, serial>>

NextThreads ==
    \E t \in Threads :
        \/ Begin(t)
        \/ Acquire(t)
        \/ Assign(t)
        \/ Increment(t)
        \/ AppendData(t)
        \/ Mutate(t)
        \/ Dumps(t)
        \/ WriteText(t)
        \/ Release(t)

\* the store under threads that call it concurrently
SpecThreads == InitThreads /\ [][NextThreads]_vars

\* the steps of a call from its change in memory to the end of its file write
InCall == {"assign", "increment", "append", "mutate", "dumps", "write", "release"}

\* C10: at most one thread at a time is between the start of its change in
\* memory and the end of its file write, whichever collections the calls
\* are on; once every call is over, memory is what the calls give when run
\* one at a time in the order in which they took the lock, and each file
\* holds its collection as it is in memory: no update is lost.
C10_MutationsSerialized ==
    /\ Cardinality({t \in Threads : thr[t].pc \in InCall}) <= 1
    /\ \A t \in Threads : thr[t].pc \in InCall => lock = t
    /\ (\A t \in Threads : thr[t].pc = "done") =>
          /\ Repo = serial
          /\ tasks_file = json_dumps(tasks)
          /\ staff_file = json_dumps(staff)

\* both calls are over: thread 1 created task 2 and thread 2 then moved it,
\* so the tasks file was written twice
C10_Witness ==
    /\ \A t \in Threads : thr[t].pc = "done" /\ thr[t].outcome = "ok"
    /\ thr[1].call.op = "create_task"
    /\ thr[2].call.op = "move_task" /\ thr[2].call.id = 2
    /\ Len(tasks) = 2 /\ tasks[2]["quadrant"] = PyInt(1)

\* ------------------------------------------------------------------------
\* The owner of a task under task requests and staff requests
\* ------------------------------------------------------------------------
\* bodies of PUT /api/tasks/{id} that carry an owner: staff 1, who may have
\* been deleted by the time of the request, and an explicit null
OwnerBodies ==
    { "owner_id" :> PyInt(1),
      "owner_id" :> None }

PutTaskOwner ==
    \E id \in TaskIds, body \in OwnerBodies :
        LET rsp == api_update_task(Repo, avatars, id, body)
        IN  /\ ApplyResponse(rsp)
            /\ Record("api_update_task", id, 0, body, rsp)
            /\ UNCHANGED <<issued_task_ids, issued_staff_ids>>

NextOwner ==
    \/ PostStaff
    \/ DeleteStaff
    \/ PostTask
    \/ PutTaskOwner
    \/ GetTasks

\* task requests that name an owner, while staff are created and deleted
SpecOwner == Init /\ [][NextOwner]_vars

\* the ids of the staff records
StaffIdsStored == {staff[i]["id"] : i \in DOMAIN staff}

\* C11: a task create or update request whose payload carries an owner_id
\* that is the id of no staff record at the time of the request is rejected
\* (400, 404 or 422) and leaves the store as it was; one that is answered
\* 200 or 201 leaves
\* the task with an owner_id that was the id of a staff record at the time
\* of the request.
C11_OwnerReferencesStaff ==
    [][(/\ last'.op \in {"api_create_task", "api_update_task"}
        /\ "owner_id" \in DOMAIN last'.payload) =>
          IF last'.payload["owner_id"] \in StaffIdsStored
          THEN last'.outcome \in {"200", "201"} =>
                  last'.ret["owner_id"] = last'.payload["owner_id"]
          ELSE /\ last'.outcome \in {"400", "404", "422"}
               /\ UNCHANGED store]_vars

\* the staff record with the id, None if there is none
StaffWithId(records, id) ==
    IF NoRecordHas(records, id) THEN None
    ELSE records[CHOOSE i \in DOMAIN records : records[i]["id"] = PyInt(id)]

\* the record holds the uploaded photo, which is in the avatar directory,
\* and no quadrant variant
BasePhotoOnly(member, files) ==
    /\ IsStr(member["photo"]) /\ member["photo"].s \in files
    /\ \A k \in PhotoKeys \ {"photo"} : DictGet(member, k) = None

\* C12: when the generation of the quadrant avatars raises during a staff
\* create, or during an update of an existing staff record, with an
\* uploaded photo, the request is answered 201 (200) with the record, which
\* is created (updated) with the uploaded photo and without variants and
\* is in the staff file.
C12_GenerationFailureTolerated ==
    [][/\ (/\ last'.op = "api_create_staff"
           /\ last'.payload.upload /\ last'.payload.gemini # "ok") =>
             /\ last'.outcome = "201"
             /\ Len(staff') = Len(staff) + 1
             /\ SubSeq(staff', 1, Len(staff)) = staff
             /\ staff'[Len(staff')]["id"] = PyInt(next_staff_id)
             /\ BasePhotoOnly(staff'[Len(staff')], avatars')
             /\ last'.ret = staff'[Len(staff')]
             /\ json_loads(staff_file') = staff'
       /\ (/\ last'.op = "api_update_staff"
           /\ last'.payload.upload /\ last'.payload.gemini # "ok"
           /\ ~NoRecordHas(staff, last'.id)) =>
             /\ last'.outcome = "200"
             /\ BasePhotoOnly(StaffWithId(staff', last'.id), avatars')
             /\ StaffWithId(staff', last'.id)["photo"] # StaffWithId(staff, last'.id)["photo"]
             /\ StaffWithId(staff', last'.id)["name"] = PyStr("Ito")
             /\ last'.ret = StaffWithId(staff', last'.id)
             /\ json_loads(staff_file') = staff']_vars

\* a record that had a photo and four variants was given a new photo while
\* the generation raised GeminiAPIError: the new photo is the only file left
C12_Witness ==
    /\ last.op = "api_update_staff" /\ last.outcome = "200"
    /\ last.payload.upload /\ last.payload.gemini = "GeminiAPIError"
    /\ Len(staff) = 1
    /\ BasePhotoOnly(staff[1], avatars)
    /\ avatars = {staff[1]["photo"].s}
    /\ staff[1]["photo"] = PyStr(FileName(2, "photo"))

\* ------------------------------------------------------------------------
\* The generation of the quadrant avatars (app/gemini_client.py), one call
\* to the image model per prompt
\* ------------------------------------------------------------------------
\* the keys of prompts, in the order of the loop
Prompts == <<"q1", "q2", "q3", "q4">>

\* how many of the calls to the image model succeed before one fails
Successes == 0..Len(Prompts)

RECURSIVE GenerateFrom(_, _, _)
\* the loop over prompts from the i-th key on: a call that fails raises
\* GeminiAPIError out of the loop, and results is dropped
GenerateFrom(i, succeed, results) ==
    IF i > Len(Prompts) THEN [outcome |-> "ok", ret |-> results]
    ELSE IF i <= succeed
         THEN GenerateFrom(i + 1, succeed, results \cup {Prompts[i]})
         ELSE [outcome |-> "GeminiAPIError", ret |-> None]

\* the keys of the dict returned, or the exception raised
generate_quadrant_avatars(configured, succeed) ==
    IF ~configured THEN [outcome |-> "GeminiConfigError", ret |-> None]
    ELSE GenerateFrom(1, succeed, {})

\* POST /api/staff with a photo, the image model answering succeed calls
PostStaffPhoto ==
    \E configured \in BOOLEAN, succeed \in Successes :
        /\ next_staff_id <= MaxStaffId
        /\ LET made == generate_quadrant_avatars(configured, succeed)
               rsp == api_create_staff(Repo, avatars, PyStr("Sato"), PyStr("Sales"),
                                       TRUE, made.outcome)
           IN  /\ ApplyResponse(rsp)
               /\ Record("api_create_staff", 0, 0,
                         [upload |-> TRUE, gemini |-> made.outcome,
                          configured |-> configured, succeed |-> succeed], rsp)
               /\ issued_staff_ids' =
                     IF Len(rsp.repo.staff) > Len(staff)
                     THEN Append(issued_staff_ids, rsp.repo.staff[Len(rsp.repo.staff)]["id"].v)
                     ELSE issued_staff_ids
               /\ UNCHANGED issued_task_ids

\* PUT /api/staff/{id} with a photo, the image model answering succeed calls
PutStaffPhoto ==
    \E id \in StaffIds, configured \in BOOLEAN, succeed \in Successes :
        LET made == generate_quadrant_avatars(configured, succeed)
            rsp == api_update_staff(Repo, avatars, id, PyStr("Ito"), PyStr(""),
                                    TRUE, made.outcome)
        IN  /\ ApplyResponse(rsp)
            /\ Record("api_update_staff", id, 0,
                      [upload |-> TRUE, gemini |-> made.outcome,
                       configured |-> configured, succeed |-> succeed], rsp)
            /\ UNCHANGED <<issued_task_ids, issued_staff_ids>>

NextAvatars ==
    \/ PostStaff
    \/ PostStaffPhoto
    \/ PutStaffPhoto
    \/ PutStaff
    \/ GetStaff
    \/ DeleteStaff

\* staff requests, those with a photo call by call of the image model
SpecAvatars == Init /\ [][NextAvatars]_vars

\* the record has exactly the variants of the first n prompts
FirstVariantsSet(member, n) ==
    \A i \in DOMAIN Prompts :
        IsStr(DictGet(member, "photo_" \o Prompts[i])) <=> i <= n

\* C13: after a staff create or update with a photo during which only some
\* of the four calls to the image model succeeded, the record has the
\* photo_qN fields of the calls that succeeded and not the others.
C13_SucceededVariantsKept ==
    [][/\ (/\ last'.op = "api_create_staff" /\ last'.outcome = "201"
           /\ "succeed" \in DOMAIN last'.payload /\ last'.payload.configured) =>
             FirstVariantsSet(staff'[Len(staff')], last'.payload.succeed)
       /\ (/\ last'.op = "api_update_staff" /\ last'.outcome = "200"
           /\ "succeed" \in DOMAIN last'.payload /\ last'.payload.configured) =>
             FirstVariantsSet(StaffWithId(staff', last'.id), last'.payload.succeed)]_vars

\* ------------------------------------------------------------------------
\* The task list under creates and deletes of tasks that differ in
\* quadrant and due date
\* ------------------------------------------------------------------------
\* bodies of POST /api/tasks: quadrant 1 or 2, without a due date or with
\* one of two
ListedTaskBodies ==
    { ("title" :> PyStr("Draft review")) @@ ("owner_id" :> PyInt(1))
          @@ ("quadrant" :> PyInt(q)) @@ due :
      q \in {1, 2},
      due \in {EmptyDict, "due_date" :> PyDate("2025-01-01"),
               "due_date" :> PyDate("2025-01-02")} }

PostTaskListed ==
    \E body \in ListedTaskBodies :
        /\ next_task_id <= MaxTaskId
        /\ LET rsp == api_create_task(Repo, avatars, body)
           IN  /\ ApplyResponse(rsp)
               /\ Record("api_create_task", 0, 0, body, rsp)
               /\ issued_task_ids' =
                     IF Len(rsp.repo.tasks) > Len(tasks)
                     THEN Append(issued_task_ids, rsp.repo.tasks[Len(rsp.repo.tasks)]["id"].v)
                     ELSE issued_task_ids
               /\ UNCHANGED issued_staff_ids

NextList ==
    \/ CallCreateStaff
    \/ PostTaskListed
    \/ DeleteTask
    \/ GetTasks

\* the list request between creates and deletes of tasks
SpecList == Init /\ [][NextList]_vars

\* a sorts no later than b: by quadrant, then by due date as a string, a
\* task without a due date first
InOrder(a, b) ==
    \/ a["quadrant"].v < b["quadrant"].v
    \/ /\ a["quadrant"] = b["quadrant"]
       /\ \/ a["due_date"] = b["due_date"]
          \/ a["due_date"] = None
          \/ /\ IsStr(a["due_date"]) /\ IsStr(b["due_date"])
             /\ StrLess(a["due_date"].s, b["due_date"].s)

\* C14: a list request on tasks whose quadrants are in 1..4 and whose
\* owners exist is answered 200 with every stored task once, in ascending
\* order of (quadrant, due date as a string), a task without a due date
\* before those of its quadrant that have one; the request leaves the
\* stored tasks, their order included, and the files as they were.
C14_ListSorted ==
    [][(/\ last'.op = "api_tasks"
        /\ \A i \in DOMAIN tasks :
              QuadrantInRange(tasks[i]["quadrant"]) /\ ~Dangling(tasks[i])) =>
          /\ last'.outcome = "200"
          /\ Len(last'.ret) = Len(tasks)
          /\ \A i \in DOMAIN tasks : \E j \in DOMAIN last'.ret :
                \A k \in DOMAIN tasks[i] : last'.ret[j][k] = tasks[i][k]
          /\ \A i, j \in DOMAIN last'.ret :
                i < j => InOrder(last'.ret[i], last'.ret[j])
          /\ UNCHANGED store]_vars

\* the list was requested while task 1 has a due date and task 2, of the
\* same quadrant, has none: task 2 is listed first, and is stored second
C14_Witness ==
    /\ last.op = "api_tasks" /\ last.outcome = "200"
    /\ Len(tasks) = 2 /\ Len(last.ret) = 2
    /\ tasks[1]["id"] = PyInt(1) /\ tasks[2]["id"] = PyInt(2)
    /\ tasks[1]["quadrant"] = tasks[2]["quadrant"]
    /\ IsStr(tasks[1]["due_date"]) /\ tasks[2]["due_date"] = None
    /\ last.ret[1]["id"] = PyInt(2) /\ last.ret[2]["id"] = PyInt(1)

\* ------------------------------------------------------------------------
\* A thread that reads the store while the others call it: the reads take
\* no lock, and a loop over a list takes the element at its index at each
\* step
\* ------------------------------------------------------------------------
\* the last thread reads, the others mutate
Reader == NumThreads

Writers == Threads \ {Reader}

TaskReads == {"list_tasks", "get_task"}

\* the reads the reader chooses from
ReadCalls ==
    { [op |-> "list_tasks", id |-> 0, q |-> 0, payload |-> EmptyDict],
      [op |-> "list_staff", id |-> 0, q |-> 0, payload |-> EmptyDict],
      [op |-> "staff_map", id |-> 0, q |-> 0, payload |-> EmptyDict],
      [op |-> "get_task", id |-> 1, q |-> 0, payload |-> EmptyDict],
      [op |-> "get_task", id |-> 2, q |-> 0, payload |-> EmptyDict],
      [op |-> "get_staff", id |-> 1, q |-> 0, payload |-> EmptyDict] }

\* the reader starts a read: nothing taken yet, the loop at the first element
BeginRead(t) ==
    /\ thr[t].pc = "idle"
    /\ \E c \in ReadCalls :
          thr' = [thr EXCEPT ![t] = [pc |-> "read", call |-> c, data |-> <<>>,
                                     buf |-> Absent, outcome |-> "running", i |-> 1]]
    /\ UNCHANGED <<store, avatars, issued_task_ids, issued_staff_ids, last, lock, serial>>

\* one step of the read: list(self._staff) takes every element at once; a
\* loop takes the element at its index, or ends when the index is past the
\* end of the list
ReadNext(t) ==
    /\ thr[t].pc = "read"
    /\ LET c == thr[t].call
           records == IF c.op \in TaskReads THEN tasks ELSE staff
           i == thr[t].i
       IN  IF c.op = "list_staff"
           THEN thr' = [thr EXCEPT ![t].pc = "done", ![t].outcome = "ok",
                                   ![t].data = list_staff(Repo)]
           ELSE IF i > Len(records)
           THEN thr' = [thr EXCEPT ![t].pc = "done",
                                   ![t].outcome = IF c.op \in {"get_task", "get_staff"}
                                                  THEN "KeyError" ELSE "ok"]
           ELSE IF c.op \in {"get_task", "get_staff"}
           THEN IF DictGet(records[i], "id") = PyInt(c.id)
                THEN thr' = [thr EXCEPT ![t].pc = "done", ![t].outcome = "ok",
                                        ![t].data = <<records[i]>>]
                ELSE thr' = [thr EXCEPT ![t].i = i + 1]
           ELSE thr' = [thr EXCEPT ![t].i = i + 1,
                                   ![t].data = Append(@, DictCopy(records[i]))]
    /\ UNCHANGED <<store, avatars, issued_task_ids, issued_staff_ids, last, lock, serial>>

NextReaders ==
    \/ \E t \in Writers :
          \/ Begin(t)
          \/ Acquire(t)
          \/ Assign(t)
          \/ Increment(t)
          \/ AppendData(t)
          \/ Mutate(t)
          \/ Dumps(t)
          \/ WriteText(t)
          \/ Release(t)
    \/ BeginRead(Reader)
    \/ ReadNext(Reader)

\* the store read by one thread while the others call it
SpecReaders == InitThreads /\ [][NextReaders]_vars

\* the elements of a list
Range(records) == {records[i] : i \in DOMAIN records}

\* the record x of the collection (tasks or staff) is as the calls that
\* took the lock so far leave it, or as it was before the call of the
\* thread that holds the lock: that call gives, on the collection in
\* memory, what the calls that took the lock so far give
BeforeOrAfter(inTasks, x) ==
    \/ x \in Range(IF inTasks THEN serial.tasks ELSE serial.staff)
    \/ /\ lock # 0
       /\ thr[lock].call.op \notin {"create_task", "create_staff"}
       /\ LET after == RunCall(Repo, thr[lock].call).repo
          IN  IF inTasks THEN after.tasks = serial.tasks
              ELSE after.staff = serial.staff

Copied(record) == [t |-> "dict", d |-> DictCopy(record)]

\* an element of list(self._staff): the dict of the store itself
Shared(record) == [t |-> "ref", id |-> record["id"].v]

\* list_tasks as the caller receives it: a new list of new dicts
list_tasks_result(r) == [i \in DOMAIN r.tasks |-> Copied(r.tasks[i])]

\* list_staff as the caller receives it: a new list of the dicts of the store
list_staff_result(r) == [i \in DOMAIN r.staff |-> Shared(r.staff[i])]

CallListTasks ==
    /\ Record("list_tasks", 0, 0, EmptyDict,
              [outcome |-> "ok", ret |-> list_tasks_result(Repo)])
    /\ UNCHANGED <<store, avatars, issued_task_ids, issued_staff_ids>>

CallListStaff ==
    /\ Record("list_staff", 0, 0, EmptyDict,
              [outcome |-> "ok", ret |-> list_staff_result(Repo)])
    /\ UNCHANGED <<store, avatars, issued_task_ids, issued_staff_ids>>

\* the records with the item key: value set in the dict that has the id
SetItemOf(records, id, key, value) ==
    [i \in DOMAIN records |->
        IF records[i]["id"] = PyInt(id) THEN DictSet(records[i], key, value)
        ELSE records[i]]

\* the caller of list_tasks or list_staff sets an item of an element of the
\* list it holds: result[i]["title"] = "Edited" (for staff, "name")
SetItemOfResult ==
    /\ last.op \in {"list_tasks", "list_staff"}
    /\ \E i \in DOMAIN last.ret :
          LET held == last.ret[i]
              key == IF last.op = "list_tasks" THEN "title" ELSE "name"
          IN  /\ last' = [last EXCEPT
                            !.op = "result_setitem", !.id = i, !.payload = key :> PyStr("Edited"),
                            !.ret[i] = IF held.t = "dict"
                                       THEN Copied(DictSet(held.d, key, PyStr("Edited")))
                                       ELSE held]
              /\ IF held.t = "ref"
                 THEN staff' = SetItemOf(staff, held.id, key, PyStr("Edited"))
                 ELSE UNCHANGED staff
    /\ UNCHANGED <<tasks, next_task_id, next_staff_id, tasks_file, staff_file, avatars,
                   issued_task_ids, issued_staff_ids, lock, thr, serial>>

\* the caller removes the last element of the list it holds: result.pop()
PopResult ==
    /\ last.op \in {"list_tasks", "list_staff"}
    /\ last.ret # <<>>
    /\ last' = [last EXCEPT !.op = "result_pop",
                            !.ret = SubSeq(@, 1, Len(@) - 1)]
    /\ UNCHANGED <<store, avatars, issued_task_ids, issued_staff_ids, lock, thr, serial>>

NextCopies ==
    \/ CallCreateStaff
    \/ CallCreateTask
    \/ CallUpdateStaff
    \/ CallDeleteStaff
    \/ CallMoveTask
    \/ CallListTasks
    \/ CallListStaff
    \/ SetItemOfResult
    \/ PopResult

\* the store and a caller that changes what list_tasks and list_staff gave
SpecCopies == Init /\ [][NextCopies]_vars

\* no record has the value the caller wrote
Unedited(records) ==
    \A i \in DOMAIN records : \A k \in DOMAIN records[i] : records[i][k] # PyStr("Edited")

\* C16: setting an item of a record obtained from list_tasks or list_staff,
\* or removing an element of the returned list, leaves the tasks and the
\* staff in memory as they were, and no file written later holds what the
\* caller wrote.
C16_ResultsAreCopies ==
    [][/\ last'.op \in {"result_setitem", "result_pop"} => UNCHANGED <<tasks, staff>>
       /\ tasks_file' # Absent => Unedited(json_loads(tasks_file'))
       /\ staff_file' # Absent => Unedited(json_loads(staff_file'))]_vars

\* ------------------------------------------------------------------------
\* Restarts: the process ends and a new one builds the store from the files
\* ------------------------------------------------------------------------
\* repo = DataRepository(DATA_DIR) in a new process. issued_task_ids and
\* issued_staff_ids go on across the restart; restarts are followed until
\* an id has been issued twice.
Restart ==
    /\ StrictlyIncreasing(issued_task_ids) /\ StrictlyIncreasing(issued_staff_ids)
    /\ LET res == [repo |-> DataRepository(tasks_file, staff_file),
                   outcome |-> "ok", ret |-> None]
       IN  /\ Apply(res)
           /\ Record("restart", 0, 0, EmptyDict, res)
    /\ UNCHANGED <<avatars, issued_task_ids, issued_staff_ids>>

NextRestart ==
    \/ CallCreateTask
    \/ CallDeleteTask
    \/ CallCreateStaff
    \/ CallDeleteStaff
    \/ Restart

\* creates and deletes with restarts in between
SpecRestart == Init /\ [][NextRestart]_vars

\* the records a file holds, none if there is no file
Stored(file) == IF file = Absent THEN <<>> ELSE json_loads(file)

\* one more than the highest id of the records, 1 if there are none
Seed(records) ==
    IF records = <<>> THEN 1
    ELSE 1 + CHOOSE m \in {records[i]["id"].v : i \in DOMAIN records} :
                 \A i \in DOMAIN records : records[i]["id"].v <= m

\* C17: a restart loads the records of the two files and sets each counter
\* to one more than the highest id loaded, 1 for an empty collection; the
\* create that follows a restart returns that id, whether or not it was
\* issued before the restart.
C17_CountersSeededAtLoad ==
    [][/\ last'.op = "restart" =>
             /\ tasks' = Stored(tasks_file) /\ staff' = Stored(staff_file)
             /\ next_task_id' = Seed(tasks') /\ next_staff_id' = Seed(staff')
             /\ UNCHANGED <<tasks_file, staff_file>>
       /\ (last.op = "restart" /\ last'.op = "create_task" /\ last'.outcome = "ok") =>
             last'.ret["id"] = PyInt(Seed(tasks))
       /\ (last.op = "restart" /\ last'.op = "create_staff" /\ last'.outcome = "ok") =>
             last'.ret["id"] = PyInt(Seed(staff))]_vars

\* tasks 1 and 2 were created, task 2 was deleted and the store restarted:
\* the next create returned 2 again
C17_Witness ==
    /\ last.op = "create_task" /\ last.outcome = "ok"
    /\ issued_task_ids = <<1, 2, 2>>
    /\ last.ret["id"] = PyInt(2)
    /\ Len(tasks) = 2 /\ tasks[2]["id"] = PyInt(2)

\* ------------------------------------------------------------------------
\* File writes that fail
\* ------------------------------------------------------------------------
\* write_text raises OSError: the file is left as it was (the open failed)
\* or with part of the text (the write failed after the file was truncated)
WriteFails(t) ==
    /\ thr[t].pc = "write"
    /\ \E left \in {IF thr[t].call.op \in TaskCalls THEN tasks_file ELSE staff_file,
                     [j |-> "partial"]} :
          IF thr[t].call.op \in TaskCalls
          THEN tasks_file' = left /\ UNCHANGED staff_file
          ELSE staff_file' = left /\ UNCHANGED tasks_file
    /\ Raise(t, "OSError")
    /\ UNCHANGED <<tasks, staff, next_task_id, next_staff_id, avatars,
                   issued_task_ids, issued_staff_ids, last, lock, serial>>

NextFailures ==
    \E t \in Threads :
        \/ Begin(t)
        \/ Acquire(t)
        \/ Assign(t)
        \/ Increment(t)
        \/ AppendData(t)
        \/ Mutate(t)
        \/ Dumps(t)
        \/ WriteText(t)
        \/ WriteFails(t)
        \/ Release(t)

\* calls on the store whose file writes may fail
SpecFailures == InitThreads /\ [][NextFailures]_vars

\* the tasks, the staff and the counters are those of the calls made so far
MemoryIsSerial ==
    /\ tasks = serial.tasks /\ staff = serial.staff
    /\ next_task_id = serial.next_task_id /\ next_staff_id = serial.next_staff_id

\* C18: a call whose file write fails raises with what it changed in
\* memory, the counter of a create included, still in place, so that the
\* file lacks the record of a failed create; when the call
\* is over the lock is free; and a write that succeeds, after a failed one
\* or not, leaves in the file the whole collection as it is in memory.
C18_FailedWriteKeepsMemory ==
    [][\A t \in Threads :
          /\ (thr[t].pc = "write" /\ thr'[t].outcome = "OSError") =>
                /\ MemoryIsSerial
                /\ UNCHANGED <<tasks, staff, next_task_id, next_staff_id>>
                /\ thr'[t].pc = "release"
                /\ thr[t].call.op = "create_task" => tasks_file' # json_dumps(tasks')
                /\ thr[t].call.op = "create_staff" => staff_file' # json_dumps(staff')
          /\ thr'[t].pc = "done" => lock' # t
          /\ (thr[t].pc = "write" /\ thr'[t].outcome = "ok") =>
                /\ MemoryIsSerial
                /\ IF thr[t].call.op \in TaskCalls
                   THEN tasks_file' = json_dumps(tasks')
                   ELSE staff_file' = json_dumps(staff')]_vars

\* the write of create_task failed, leaving task 2 in memory, the counter
\* at 3 and part of the text in the file; the move of task 2 by the other
\* thread then wrote both tasks
C18_Witness ==
    /\ \A t \in Threads : thr[t].pc = "done"
    /\ thr[1].call.op = "create_task" /\ thr[1].outcome = "OSError"
    /\ thr[2].call.op = "move_task" /\ thr[2].call.id = 2 /\ thr[2].outcome = "ok"
    /\ lock = 0
    /\ Len(tasks) = 2 /\ next_task_id = 3
    /\ tasks_file = json_dumps(tasks)

\* ------------------------------------------------------------------------
\* Concurrent creates
\* ------------------------------------------------------------------------
\* the threads whose call is op and has been given its id
Creators(op) == {t \in Threads : thr[t].call.op = op /\ thr[t].pc \in {"done", "release"}}

\* the records created by different threads have different ids
DistinctIds(op) ==
    \A t, u \in Creators(op) : t # u => thr[t].data["id"] # thr[u].data["id"]

\* once the calls are over, a collection that only creates were called on
\* holds the record of every create
AllPresent(op, records, others) ==
    (\A u \in Threads : thr[u].call.op \notin others) =>
        \A t \in Creators(op) : \E i \in 1..Len(records) : records[i] = thr[t].data

\* C19: whatever the interleaving of the threads, no two records made by
\* create_task (by create_staff) have the same id; and once every call is
\* over, each created record is in its collection, unless a call other than
\* a create was made on that collection, and each counter is its value at
\* the start plus the number of creates on its collection.
C19_ConcurrentCreates ==
    /\ DistinctIds("create_task") /\ DistinctIds("create_staff")
    /\ (\A t \in Threads : thr[t].pc = "done") =>
          /\ AllPresent("create_task", tasks, TaskCalls \ {"create_task"})
          /\ AllPresent("create_staff", staff, {"update_staff", "delete_staff"})
          /\ next_task_id = Seeded.next_task_id + Cardinality(Creators("create_task"))
          /\ next_staff_id = Seeded.next_staff_id + Cardinality(Creators("create_staff"))

\* every thread has called create_task: with the task of the start the
\* collection holds one task more per thread
C19_Witness ==
    /\ \A t \in Threads : thr[t].pc = "done" /\ thr[t].call.op = "create_task"
    /\ Len(tasks) = 1 + NumThreads
    /\ next_task_id = 2 + NumThreads

====
